---------------------------- MODULE Spec2Model ----------------------------
(***************************************************************************)
(* Formulation Knowledge Base (app_gsheets.py): the surfactant             *)
(* recommender, the query/aggregation layer over the four tables, and the  *)
(* two submission handlers that append to the spreadsheet store.           *)
(*                                                                         *)
(* A Python str is a sequence of one-character strings; a table (a         *)
(* worksheet, or the DataFrame read from it) is a sequence of records.     *)
(* The catalog's tags are written with ASCII hyphens here; the source      *)
(* spells both the tag and the tested literal with U+2011.                 *)
(***************************************************************************)
EXTENDS Integers, Sequences, FiniteSets, TLC

VARIABLES
    rec_target,   \* the recommender's target product ("none" before a run)
    want,         \* the three preference checkboxes
    candidates,   \* the candidate systems, in catalog order
    keys,         \* the sort keys: score_system of each candidate, in order
    ranked,       \* the ranked list shown
    ws,           \* the store: worksheet name -> data rows (text cells)
    df,           \* the session's DataFrames: worksheet name -> rows
    last,         \* the last submission: its input, the store before, its end
    runs,         \* script runs (submissions, renders) handled so far
    sel_q,        \* the sidebar filters of the last render (the *_q values)
    df_view,      \* the filtered formulations of the last render
    sel_ids,      \* the formulation ids selected for detail
    detail,       \* the detail table of the last render, or how it ended
    freq,         \* the ingredient frequency table of the last render
    sessions      \* two browser sessions on the store: each one's script run

recVars == <<rec_target, want, candidates, keys, ranked>>
storeVars == <<ws, df, last, runs>>
queryVars == <<sel_q, df_view, sel_ids, detail, freq>>
vars ==
    <<rec_target, want, candidates, keys, ranked, ws, df, last, runs,
      sel_q, df_view, sel_ids, detail, freq, sessions>>

(***************************************************************************)
(* Bounds of the model.                                                    *)
(***************************************************************************)
MaxCand == 3          \* systems in a generated candidate list
MaxSubmissions == 2   \* submissions in a row, starting from empty tables
MaxLines == 3         \* lines of an ingredient block (one script run)
MaxTokens == 3        \* comma/newline separated pieces of a bulk list

(***************************************************************************)
(* Generic helpers.                                                        *)
(***************************************************************************)
Range(s) == {s[i] : i \in 1..Len(s)}

SeqsUpTo(S, n) == UNION {[1..k -> S] : k \in 0..n}

InList(x, lst) == \E i \in 1..Len(lst) : lst[i] = x

(***************************************************************************)
(* Python str operations, on sequences of one-character strings.           *)
(***************************************************************************)
Whitespace == {" ", "\n", "\r", "\t"}

LowerChar(c) ==
    CASE c = "A" -> "a"
      [] c = "B" -> "b"
      [] c = "X" -> "x"
      [] OTHER -> c

(* s.lower() *)
Lower(s) == [i \in 1..Len(s) |-> LowerChar(s[i])]

RECURSIVE LStrip(_)
LStrip(s) ==
    IF s # <<>> /\ Head(s) \in Whitespace THEN LStrip(Tail(s)) ELSE s

RECURSIVE RStrip(_)
RStrip(s) ==
    IF s # <<>> /\ s[Len(s)] \in Whitespace
    THEN RStrip(SubSeq(s, 1, Len(s) - 1))
    ELSE s

(* s.strip() *)
Strip(s) == RStrip(LStrip(s))

(* s.split(sep) for a one-character sep: the pieces between separators,   *)
(* empty pieces kept; "".split(sep) is [""].                               *)
RECURSIVE SplitFrom(_, _, _)
SplitFrom(s, sep, cur) ==
    IF s = <<>> THEN <<cur>>
    ELSE IF Head(s) = sep
         THEN <<cur>> \o SplitFrom(Tail(s), sep, <<>>)
         ELSE SplitFrom(Tail(s), sep, Append(cur, Head(s)))

Split(s, sep) == SplitFrom(s, sep, <<>>)

(* s.replace(old, new) for one-character old and new. *)
Replace(s, old, new) == [i \in 1..Len(s) |-> IF s[i] = old THEN new ELSE s[i]]

(* s.splitlines(): as split on the line breaks, without the empty last    *)
(* piece a final line break leaves ("\r\n" is one break).                  *)
RECURSIVE SplitLinesFrom(_, _)
SplitLinesFrom(s, cur) ==
    IF s = <<>> THEN (IF cur = <<>> THEN <<>> ELSE <<cur>>)
    ELSE IF Head(s) = "\r" /\ Len(s) > 1 /\ s[2] = "\n"
         THEN <<cur>> \o SplitLinesFrom(Tail(Tail(s)), <<>>)
    ELSE IF Head(s) \in {"\n", "\r"}
         THEN <<cur>> \o SplitLinesFrom(Tail(s), <<>>)
    ELSE SplitLinesFrom(Tail(s), Append(cur, Head(s)))

splitlines(s) == SplitLinesFrom(s, <<>>)

RECURSIVE SelectSeqNonEmpty(_)
SelectSeqNonEmpty(ss) ==
    IF ss = <<>> THEN <<>>
    ELSE IF Head(ss) = <<>> THEN SelectSeqNonEmpty(Tail(ss))
         ELSE <<Head(ss)>> \o SelectSeqNonEmpty(Tail(ss))

(* sep.join(pieces) *)
RECURSIVE Join(_, _)
Join(pieces, sep) ==
    IF pieces = <<>> THEN <<>>
    ELSE IF Len(pieces) = 1 THEN pieces[1]
         ELSE pieces[1] \o sep \o Join(Tail(pieces), sep)

Digits == <<"0", "1", "2", "3", "4", "5", "6", "7", "8", "9">>

IsDigit(c) == \E d \in 1..10 : Digits[d] = c

DigitVal(c) == (CHOOSE d \in 1..10 : Digits[d] = c) - 1

(* str(n) for an int n >= 0 *)
RECURSIVE IntToStr(_)
IntToStr(n) ==
    IF n < 10 THEN <<Digits[n + 1]>>
    ELSE IntToStr(n \div 10) \o <<Digits[(n % 10) + 1]>>

(* A missing number (NaN) of a numeric column. *)
NaN == 0 - 1

RECURSIVE DigitsToInt(_, _)
DigitsToInt(s, acc) ==
    IF s = <<>> THEN acc
    ELSE DigitsToInt(Tail(s), 10 * acc + DigitVal(Head(s)))

(* pd.to_numeric(cell, errors='coerce') of a cell holding text: the       *)
(* number a digit string spells, NaN for anything else.                    *)
to_numeric(s) ==
    IF s # <<>> /\ \A i \in 1..Len(s) : IsDigit(s[i])
    THEN DigitsToInt(s, 0)
    ELSE NaN

(***************************************************************************)
(* The tabular store: four worksheets, each a header row (TEMPLATE) and    *)
(* data rows of text cells; a DataFrame is what ws_to_df reads from one.   *)
(***************************************************************************)
TEMPLATE ==
    [ Brands |-> <<"id", "name">>,
      Formulations |->
          <<"id", "name", "brand_id", "category", "product_type", "notes">>,
      Ingredients |-> <<"id", "inci_name", "common_name", "function", "cas">>,
      Formulation_Ingredients |->
          <<"id", "formulation_id", "ingredient_id", "percentage", "phase",
            "notes">> ]

Tabs == DOMAIN TEMPLATE

(* The columns ws_to_df coerces to numbers. *)
CoercedCols == {"id", "brand_id", "percentage", "ingredient_id", "formulation_id"}

(* The columns whose values the handlers pass to df_append as ints. *)
IntCols == {"id", "brand_id", "ingredient_id", "formulation_id"}

(* ws_to_df: every data row keyed by the header row, the coerced columns  *)
(* turned into numbers (NaN when the text is not a number).                *)
ws_to_df(rows) ==
    [i \in 1..Len(rows) |->
        [h \in DOMAIN rows[i] |->
            IF h \in CoercedCols THEN to_numeric(rows[i][h]) ELSE rows[i][h]]]

(* The row df_append writes: str(row.get(h, "")) for each header h. *)
SheetRow(tab, row) ==
    [h \in Range(TEMPLATE[tab]) |->
        IF h \in DOMAIN row
        THEN (IF h \in IntCols THEN IntToStr(row[h]) ELSE row[h])
        ELSE <<>>]

RECURSIVE SeqMax(_)
SeqMax(ns) ==
    IF Len(ns) = 1 THEN ns[1]
    ELSE LET m == SeqMax(Tail(ns)) IN IF ns[1] > m THEN ns[1] ELSE m

(* pd.to_numeric(df["id"], errors='coerce').max(): the largest id that is *)
(* a number, NaN when there is none.                                       *)
IdMax(d) ==
    IF \A i \in 1..Len(d) : d[i]["id"] = NaN THEN NaN
    ELSE SeqMax([i \in 1..Len(d) |-> d[i]["id"]])

(* 1 if df.empty else int(max) + 1; int(NaN) raises ValueError. *)
NextIdRaises(d) == d # <<>> /\ IdMax(d) = NaN

NextId_noIncrement(d) == IF d = <<>> THEN 1 ELSE IdMax(d)

NextId(d) == IF d = <<>> THEN 1 ELSE IdMax(d) + 1

(***************************************************************************)
(* A run of a submission handler: the worksheets, the DataFrames loaded    *)
(* at the start of the script run, the handler's locals, and how it ends.  *)
(* budget is the number of store appends that succeed before one raises.   *)
(***************************************************************************)
StartRun(sheets, k) ==
    [ ws |-> sheets,
      df |-> [t \in Tabs |-> ws_to_df(sheets[t])],
      budget |-> k,
      status |-> "ok",
      bid |-> 0, next_fid |-> 0, next_ing_id |-> 0, next_fi_id |-> 0,
      existing |-> {}, added |-> 0 ]

(* df_append(ws, row): reads the header row and appends; a failing store  *)
(* call raises and nothing is appended.                                    *)
df_append_swallowed(rs, tab, row) ==
    IF rs.status # "ok" \/ rs.budget = 0 THEN rs
    ELSE [rs EXCEPT !.ws[tab] = Append(@, SheetRow(tab, row)),
                    !.budget = @ - 1]

df_append(rs, tab, row) ==
    IF rs.status # "ok" THEN rs
    ELSE IF rs.budget = 0 THEN [rs EXCEPT !.status = "raised"]
    ELSE [rs EXCEPT !.ws[tab] = Append(@, SheetRow(tab, row)),
                    !.budget = @ - 1]

(* df.loc[len(df)] = row *)
df_loc_append(rs, tab, row) ==
    IF rs.status # "ok" THEN rs
    ELSE [rs EXCEPT !.df[tab] = Append(@, row)]

Raise(rs) == IF rs.status # "ok" THEN rs ELSE [rs EXCEPT !.status = "raised"]

(***************************************************************************)
(* Add New Formulation: the submission handler.                            *)
(***************************************************************************)
NEW_BRAND == <<"(", "n", "e", "w", ")">>

(* sorted(df_brands["name"].dropna().unique()): the names on offer. *)
BrandNamesOf(d) == {d[i]["name"] : i \in 1..Len(d)}

(* not new_brand_name.strip() *)
IsBlank_noStrip(name) == name = <<>>

IsBlank(name) == Strip(name) = <<>>

(* Ensure brand id. *)
EnsureBrand(rs, in) ==
    IF in.sel_brand # NEW_BRAND
    THEN LET IsSel(r) == r["name"] = in.sel_brand
             hit == SelectSeq(rs.df["Brands"], IsSel)
         IN IF hit = <<>> \/ hit[1]["id"] = NaN
            THEN Raise(rs)
            ELSE [rs EXCEPT !.bid = hit[1]["id"]]
    ELSE IF IsBlank(in.new_brand_name)
    THEN [rs EXCEPT !.status = "stopped"]
    ELSE IF NextIdRaises(rs.df["Brands"])
    THEN Raise(rs)
    ELSE LET next_bid == NextId(rs.df["Brands"])
             row == [id |-> next_bid, name |-> Strip(in.new_brand_name)]
         IN df_loc_append(
                [df_append(rs, "Brands", row) EXCEPT !.bid = next_bid],
                "Brands", row)

(* New formulation id, and the Formulations row. *)
AppendFormulation(rs, in) ==
    IF rs.status # "ok" THEN rs
    ELSE IF NextIdRaises(rs.df["Formulations"]) THEN Raise(rs)
    ELSE LET next_fid == NextId(rs.df["Formulations"])
         IN df_append([rs EXCEPT !.next_fid = next_fid], "Formulations",
                      [ id |-> next_fid,
                        name |-> Strip(in.f_name),
                        brand_id |-> rs.bid,
                        category |-> Strip(in.f_category),
                        product_type |-> Strip(in.f_ptype),
                        notes |-> Strip(in.f_notes) ])

(* next_ing_id_start and next_fi_id, taken before the loop. *)
StartIds(rs) ==
    IF rs.status # "ok" THEN rs
    ELSE IF NextIdRaises(rs.df["Ingredients"]) THEN Raise(rs)
    ELSE IF NextIdRaises(rs.df["Formulation_Ingredients"]) THEN Raise(rs)
    ELSE [rs EXCEPT !.next_ing_id = NextId(rs.df["Ingredients"]),
                    !.next_fi_id = NextId(rs.df["Formulation_Ingredients"])]

(* ing_lines: the stripped non-blank lines of the text area. *)
ing_lines_of(ing_text) ==
    LET ls == splitlines(ing_text)
    IN SelectSeqNonEmpty([i \in 1..Len(ls) |-> Strip(ls[i])])

(* parts = [p.strip() for p in ln.split("|")] *)
PartsOf(ln) ==
    LET ps == Split(ln, "|") IN [i \in 1..Len(ps) |-> Strip(ps[i])]

MinParts == 4

(* Lookup ingredient by INCI: the rows whose inci_name matches, ignoring  *)
(* case.                                                                   *)
ExistsRows_exact(d, inci) ==
    LET Same(r) == r["inci_name"] = inci
    IN IF d # <<>> THEN SelectSeq(d, Same) ELSE <<>>

ExistsRows(d, inci) ==
    LET Same(r) == Lower(r["inci_name"]) = Lower(inci)
    IN IF d # <<>> THEN SelectSeq(d, Same) ELSE <<>>

(* Write FI row. *)
WriteFI(rs, ing_id, parts) ==
    IF rs.status # "ok" THEN rs
    ELSE LET r1 == df_append(rs, "Formulation_Ingredients",
                       [ id |-> rs.next_fi_id,
                         formulation_id |-> rs.next_fid,
                         ingredient_id |-> ing_id,
                         percentage |-> parts[4],
                         phase |-> IF Len(parts) > 4 THEN parts[5] ELSE <<>>,
                         notes |-> IF Len(parts) > 5 THEN parts[6] ELSE <<>> ])
         IN IF r1.status = "ok"
            THEN [r1 EXCEPT !.next_fi_id = @ + 1]
            ELSE r1

(* if len(parts) < 4: continue *)
SkipLine_leavesGap(rs) ==
    [rs EXCEPT !.next_fi_id = @ + 1, !.next_ing_id = @ + 1]

SkipLine(rs) == rs

(* The loop body for one line. *)

ProcessLine(rs, ln) ==
    LET parts == PartsOf(ln)
    IN IF rs.status # "ok" THEN rs
       ELSE IF Len(parts) < MinParts THEN SkipLine(rs)
       ELSE LET exists == ExistsRows(rs.df["Ingredients"], parts[1])
            IN IF exists = <<>>
               THEN LET ing_id == rs.next_ing_id
                        row == [ id |-> ing_id,
                                 inci_name |-> parts[1],
                                 common_name |-> parts[2],
                                 function |-> parts[3],
                                 cas |-> <<>> ]
                        r1 == df_append([rs EXCEPT !.next_ing_id = @ + 1],
                                        "Ingredients", row)
                    IN WriteFI(df_loc_append(r1, "Ingredients", row),
                               ing_id, parts)
               ELSE IF exists[1]["id"] = NaN THEN Raise(rs)
               ELSE WriteFI(rs, exists[1]["id"], parts)

RECURSIVE ProcessLines(_, _)
ProcessLines(rs, lines) ==
    IF lines = <<>> THEN rs
    ELSE ProcessLines(ProcessLine(rs, Head(lines)), Tail(lines))

(* The whole handler, from the DataFrames loaded by this script run. *)
add_formulation(sheets, in, k) ==
    ProcessLines(
        StartIds(AppendFormulation(EnsureBrand(StartRun(sheets, k), in), in)),
        ing_lines_of(in.ing_text))

(* What the user is told. *)
Outcome(rs) ==
    CASE rs.status = "ok" -> "success"
      [] rs.status = "raised" -> "failure"
      [] rs.status = "stopped" -> "halted"
      [] rs.status = "warned" -> "warning"

(***************************************************************************)
(* Bulk Add Ingredients: the submission handler.                           *)
(***************************************************************************)
RECURSIVE StripNonEmpty(_)
StripNonEmpty(ps) ==
    IF ps = <<>> THEN <<>>
    ELSE IF Strip(Head(ps)) = <<>> THEN StripNonEmpty(Tail(ps))
         ELSE <<Strip(Head(ps))>> \o StripNonEmpty(Tail(ps))

RECURSIVE TokensOfLines(_)
TokensOfLines(lines) ==
    IF lines = <<>> THEN <<>>
    ELSE StripNonEmpty(Split(Head(lines), ",")) \o TokensOfLines(Tail(lines))

(* Split by comma and/or newline, strip whitespace, drop the empty. *)
tokens_of(inci_raw) ==
    TokensOfLines(Split(Replace(inci_raw, "\r", "\n"), "\n"))

(* list(dict.fromkeys(tokens)): first occurrences, in order. *)
RECURSIVE FromKeys(_, _)
FromKeys(toks, seen) ==
    IF toks = <<>> THEN <<>>
    ELSE IF Head(toks) \in seen THEN FromKeys(Tail(toks), seen)
         ELSE <<Head(toks)>> \o FromKeys(Tail(toks), seen \cup {Head(toks)})

(* existing.add(inci.lower()) *)
ExistingAdd_forgotten(existing, inci) == existing

ExistingAdd(existing, inci) == existing \cup {Lower(inci)}

(* The loop body for one token. *)
BulkToken(rs, inci, in) ==
    IF rs.status # "ok" THEN rs
    ELSE IF Lower(inci) \in rs.existing THEN rs
    ELSE LET row == [ id |-> rs.next_ing_id,
                      inci_name |-> inci,
                      common_name |-> in.default_common,
                      function |-> in.default_function,
                      cas |-> <<>> ]
             r1 == df_loc_append(df_append(rs, "Ingredients", row),
                                 "Ingredients", row)
         IN IF r1.status # "ok" THEN r1
            ELSE [r1 EXCEPT !.existing = ExistingAdd(@, inci),
                            !.next_ing_id = @ + 1,
                            !.added = @ + 1]

RECURSIVE BulkLoop(_, _, _)
BulkLoop(rs, toks, in) ==
    IF toks = <<>> THEN rs
    ELSE BulkLoop(BulkToken(rs, Head(toks), in), Tail(toks), in)

bulk_ing_add(sheets, in, k) ==
    LET rs == StartRun(sheets, k)
        raw_tokens == tokens_of(in.inci_raw)
        tokens == IF in.dedup THEN FromKeys(raw_tokens, {}) ELSE raw_tokens
        d == rs.df["Ingredients"]
        existing == IF d # <<>>
                    THEN {Lower(d[i]["inci_name"]) : i \in 1..Len(d)}
                    ELSE {}
    IN IF raw_tokens = <<>> THEN [rs EXCEPT !.status = "warned"]
       ELSE IF NextIdRaises(d) THEN Raise(rs)
       ELSE BulkLoop([rs EXCEPT !.existing = existing,
                                !.next_ing_id = NextId(d)],
                     tokens, in)

(***************************************************************************)
(* Submissions: state and actions.  A script run loads the four            *)
(* DataFrames from the store and then handles the one submitted form.      *)
(***************************************************************************)
EmptySheets == [t \in Tabs |-> <<>>]

NoFailure == 0 - 1

NoLast ==
    [ op |-> "none", outcome |-> "none", sel_brand |-> <<>>,
      new_brand_name |-> <<>>, text |-> <<>>, dedup |-> FALSE,
      k |-> 0, pre |-> EmptySheets, added |-> 0 ]

(* Rows appended to the store between two of its states. *)
AppendCount(before, after) ==
    (Len(after["Brands"]) - Len(before["Brands"]))
  + (Len(after["Formulations"]) - Len(before["Formulations"]))
  + (Len(after["Ingredients"]) - Len(before["Ingredients"]))
  + (Len(after["Formulation_Ingredients"])
       - Len(before["Formulation_Ingredients"]))

(* Form inputs. *)
AddInput(sel, nm, text) ==
    [ sel_brand |-> sel, new_brand_name |-> nm,
      f_name |-> <<"f", "1", " ">>, f_category |-> <<"B", "c">>,
      f_ptype |-> <<"B", "W">>, f_notes |-> <<>>, ing_text |-> text ]

BulkInput(raw, dd) ==
    [ inci_raw |-> raw, dedup |-> dd,
      default_function |-> <<>>, default_common |-> <<>> ]

(* Ingredient lines on offer: INCI | Common | Function | % | Phase | Notes *)
LineA == Join(<< <<"a">>, <<"w">>, <<"s">>, <<"6">> >>, <<"|">>)
LineACaps ==
    Join(<< <<" ", "A", " ">>, <<" ", "w">>, <<"s">>, <<"7">>, <<"p">>,
            <<"n">> >>, <<"|">>)
LineB == Join(<< <<"b">>, <<"w">>, <<"s">>, <<"6">>, <<"p">> >>, <<"|">>)
LineShort == Join(<< <<"b">>, <<"w">>, <<"s">> >>, <<"|">>)
LineBlank == <<" ">>

LineSamples == {LineA, LineACaps, LineB, LineShort}

TextOf(lines) == Join(lines, <<"\n">>)

(* Blocks of at most MaxLines lines, and two with blank lines. *)
IngTexts ==
    {TextOf(ls) : ls \in SeqsUpTo(LineSamples, MaxLines)} \cup
    { TextOf(<<LineBlank, LineB, <<>>, LineShort, LineA>>) \o <<"\n">>,
      TextOf(<<LineBlank>>) }

(* The blocks tried in a row of submissions. *)
FewIngTexts ==
    { <<>>,
      TextOf(<<LineA, LineShort, LineACaps>>),
      TextOf(<<LineShort, LineB>>),
      TextOf(<<LineB, LineA>>) }

NewBrandNames == { <<" ", "x">>, <<" ">>, <<>> }

FewNewBrandNames == { <<"x">>, <<" ">> }

(* The brand widgets: "(new)" with a typed name, or a name on offer (the  *)
(* typed name is then not read).                                           *)
BrandInputs(names, offered) ==
    {<<NEW_BRAND, nm>> : nm \in names} \cup {<<b, <<>> >> : b \in offered}

(* Bulk lists: pieces joined by one separator. *)
Pieces == { <<"a">>, <<"A">>, <<"b", " ">>, <<>> }

Separators == { <<",">>, <<",", " ">>, <<"\r", "\n">> }

InciRaws ==
    {Join(ps, sep) : ps \in SeqsUpTo(Pieces, MaxTokens), sep \in Separators}

FewInciRaws ==
    { <<>>,
      Join(<< <<"a">>, <<"a">>, <<"c">> >>, <<",", " ">>),
      Join(<< <<"B">>, <<"A">> >>, <<"\n">>) }

(* The brands on offer in the form: "(new)" and the names loaded. *)
BrandChoices == {NEW_BRAND} \cup BrandNamesOf(ws_to_df(ws["Brands"]))

(* One script run with the add_formulation form submitted; the store      *)
(* fails at its (k+1)-th append, or never when the handler makes only k.   *)
(* limit caps the submissions explored in a row.                           *)
SubmitAdd(in, limit) ==
    LET full == add_formulation(ws, in, NoFailure)
    IN /\ runs < limit
       /\ in.sel_brand \in BrandChoices
       /\ \E k \in 0..AppendCount(ws, full.ws) :
            LET rs == add_formulation(ws, in, k)
            IN /\ ws' = rs.ws
               /\ df' = rs.df
               /\ last' = [ op |-> "add_formulation",
                            outcome |-> Outcome(rs),
                            sel_brand |-> in.sel_brand,
                            new_brand_name |-> in.new_brand_name,
                            text |-> in.ing_text, dedup |-> FALSE,
                            k |-> k, pre |-> ws, added |-> 0 ]
       /\ runs' = runs + 1
       /\ UNCHANGED <<recVars, queryVars, sessions>>

(* One script run with the bulk_ing_add form submitted. *)
SubmitBulk(in, limit) ==
    LET full == bulk_ing_add(ws, in, NoFailure)
    IN /\ runs < limit
       /\ \E k \in 0..AppendCount(ws, full.ws) :
            LET rs == bulk_ing_add(ws, in, k)
            IN /\ ws' = rs.ws
               /\ df' = rs.df
               /\ last' = [ op |-> "bulk_ing_add", outcome |-> Outcome(rs),
                            sel_brand |-> <<>>, new_brand_name |-> <<>>,
                            text |-> in.inci_raw, dedup |-> in.dedup,
                            k |-> k, pre |-> ws, added |-> rs.added ]
       /\ runs' = runs + 1
       /\ UNCHANGED <<recVars, queryVars, sessions>>

(* No script run of either session has started. *)
Sessions == {1, 2}

NoSession == [pc |-> "start", loaded |-> EmptySheets, queue |-> <<>>,
              final |-> "none", outcome |-> "none"]

SessionsIdle == sessions = [s \in Sessions |-> NoSession]

(* Nothing rendered yet. *)
NotRendered == [status |-> "none", merged |-> <<>>, rows |-> <<>>]

QueryIdle ==
    /\ sel_q = [cat |-> <<"None">>, ptype |-> <<"None">>, brand |-> <<"None">>]
    /\ df_view = <<>>
    /\ sel_ids = <<>>
    /\ detail = [status |-> "none", rows |-> <<>>]
    /\ freq = NotRendered

RecIdle ==
    /\ rec_target = "none"
    /\ want = [sulfate_free |-> FALSE, mild |-> FALSE, high_foam |-> FALSE]
    /\ candidates = <<>>
    /\ keys = <<>>
    /\ ranked = <<>>

StoreIdle ==
    /\ ws = EmptySheets
    /\ df = [t \in Tabs |-> <<>>]
    /\ last = NoLast
    /\ runs = 0

(* Submissions one at a time, starting from empty tables. *)
Init == RecIdle /\ StoreIdle /\ QueryIdle /\ SessionsIdle

Next ==
    \/ \E b \in BrandInputs(FewNewBrandNames, BrandChoices \ {NEW_BRAND}),
         text \in FewIngTexts :
           SubmitAdd(AddInput(b[1], b[2], text), MaxSubmissions)
    \/ \E raw \in FewInciRaws, dd \in BOOLEAN :
           SubmitBulk(BulkInput(raw, dd), MaxSubmissions)

Spec == Init /\ [][Next]_vars

(* One script run, from a store earlier submissions left. *)
SeedSheets ==
    { EmptySheets,
      add_formulation(EmptySheets,
          AddInput(NEW_BRAND, <<"x">>, TextOf(<<LineA, LineB>>)),
          NoFailure).ws,
      add_formulation(EmptySheets,
          AddInput(NEW_BRAND, <<"x">>, TextOf(<<LineB>>)), 3).ws,
      bulk_ing_add(EmptySheets, BulkInput(<<"A", ",", "c">>, TRUE),
          NoFailure).ws }

InitRun ==
    /\ RecIdle
    /\ QueryIdle
    /\ SessionsIdle
    /\ ws \in SeedSheets
    /\ df = [t \in Tabs |-> ws_to_df(ws[t])]
    /\ last = NoLast
    /\ runs = 0

NextRun ==
    \/ \E b \in BrandInputs(NewBrandNames, BrandChoices \ {NEW_BRAND}),
         text \in IngTexts :
           SubmitAdd(AddInput(b[1], b[2], text), 1)
    \/ \E raw \in InciRaws, dd \in BOOLEAN :
           SubmitBulk(BulkInput(raw, dd), 1)

SpecRun == InitRun /\ [][NextRun]_vars

(***************************************************************************)
(* Query/aggregation layer: DataFrames as a column list and rows.          *)
(***************************************************************************)
Frame(tab, rows) == [cols |-> TEMPLATE[tab], rows |-> rows]

(* A missing text value (None/NaN in an object column). *)
NoText == <<"NaN">>

(* The name merge gives an overlapping column: name + suffix. *)
Suffixed(c, suf) ==
    CASE suf = "" -> c
      [] suf = "_ing" /\ c = "id" -> "id_ing"
      [] suf = "_form" /\ c = "id" -> "id_form"
      [] suf = "_form" /\ c = "notes" -> "notes_form"
      [] suf = "_form" /\ c = "name" -> "name_form"
      [] suf = "_ing" /\ c = "notes" -> "notes_ing"
      [] suf = "_ing" /\ c = "function" -> "function_ing"

NumericCol(c) == c \in CoercedCols \cup {"id_ing", "id_form", "Count"}

RECURSIVE Flatten(_)
Flatten(ss) == IF ss = <<>> THEN <<>> ELSE Head(ss) \o Flatten(Tail(ss))

(* left.merge(right, left_on=, right_on=, how="left", suffixes=(sl, sr)): *)
(* only the column names present on both sides get a suffix; a left row    *)
(* without a match keeps missing values in the right columns.              *)
merge_left(L, R, left_on, right_on, sl, sr) ==
    LET overlap == Range(L.cols) \cap Range(R.cols)
        LName(c) == IF c \in overlap THEN Suffixed(c, sl) ELSE c
        RName(c) == IF c \in overlap THEN Suffixed(c, sr) ELSE c
        lcols == [i \in 1..Len(L.cols) |-> LName(L.cols[i])]
        rcols == [i \in 1..Len(R.cols) |-> RName(R.cols[i])]
        LSrc(n) == CHOOSE c \in Range(L.cols) : LName(c) = n
        RSrc(n) == CHOOSE c \in Range(R.cols) : RName(c) = n
        Joined(l, r) ==
            [n \in Range(lcols) \cup Range(rcols) |->
                IF n \in Range(lcols) THEN l[LSrc(n)] ELSE r[RSrc(n)]]
        Unmatched(l) ==
            [n \in Range(lcols) \cup Range(rcols) |->
                IF n \in Range(lcols) THEN l[LSrc(n)]
                ELSE IF NumericCol(n) THEN NaN ELSE NoText]
        RowsFor(l) ==
            LET Hit(r) == r[right_on] = l[left_on]
                hits == SelectSeq(R.rows, Hit)
            IN IF hits = <<>> THEN <<Unmatched(l)>>
               ELSE [i \in 1..Len(hits) |-> Joined(l, hits[i])]
    IN [ cols |-> lcols \o rcols,
         rows |-> Flatten([i \in 1..Len(L.rows) |-> RowsFor(L.rows[i])]) ]

(* frame[[c1, c2, ...]]: KeyError when a column is not in the frame. *)
HasCols(F, cols) == \A i \in 1..Len(cols) : cols[i] \in Range(F.cols)

Project(F, cols) ==
    [ cols |-> cols,
      rows |-> [i \in 1..Len(F.rows) |->
                  [c \in Range(cols) |-> F.rows[i][c]]] ]

(* Sidebar: "(All)" stands for no filter. *)
ALL == <<"(", "A", "l", "l", ")">>

None == <<"None">>

SelQ(choice) == IF choice = ALL THEN None ELSE choice

(* `if sel_q:` is the truth value of None or of a str. *)
Truthy(q) == q # None /\ q # <<>>

(* brand_name_to_id: later rows of a name replace earlier ones. *)
brand_name_to_id(d, name) ==
    LET Named(r) == r["name"] = name /\ r["id"] # NaN
        hit == SelectSeq(d, Named)
    IN IF hit = <<>> THEN NaN ELSE hit[Len(hit)]["id"]

(* Filtered formulations. *)
df_view_of(d, sq) ==
    LET CatOk(r) == Truthy(sq.cat) => r["category"] = sq.cat
        TypeOk(r) == Truthy(sq.ptype) => r["product_type"] = sq.ptype
        bid == brand_name_to_id(d["Brands"], sq.brand)
        BrandOk(r) == (Truthy(sq.brand) /\ bid # NaN) => r["brand_id"] = bid
        Keep(r) == CatOk(r) /\ TypeOk(r) /\ BrandOk(r)
    IN SelectSeq(d["Formulations"], Keep)

DetailCols ==
    <<"inci_name", "common_name", "function_ing", "percentage", "phase",
      "notes">>

(* Ingredients of one selected formulation. *)
detail_of(d, fid) ==
    LET OfForm(r) == r["formulation_id"] = fid
        df_one == SelectSeq(d["Formulation_Ingredients"], OfForm)
        merged == merge_left(Frame("Formulation_Ingredients", df_one),
                             Frame("Ingredients", d["Ingredients"]),
                             "ingredient_id", "id", "", "_ing")
    IN IF HasCols(merged, DetailCols)
       THEN [status |-> "shown", rows |-> Project(merged, DetailCols).rows]
       ELSE [status |-> "KeyError", rows |-> <<>>]

(* Character order of str comparison. *)
Ord(c) ==
    CASE c = " " -> 32
      [] c = "A" -> 65 [] c = "B" -> 66 [] c = "W" -> 87
      [] c = "a" -> 97 [] c = "b" -> 98 [] c = "c" -> 99
      [] OTHER -> 120

RECURSIVE StrLess(_, _)
StrLess(a, b) ==
    IF b = <<>> THEN FALSE
    ELSE IF a = <<>> THEN TRUE
    ELSE IF Ord(Head(a)) # Ord(Head(b)) THEN Ord(Head(a)) < Ord(Head(b))
    ELSE StrLess(Tail(a), Tail(b))

(* sort_values(["Count", "inci_name"], ascending=[False, True]): missing  *)
(* names last within a count.                                              *)
FreqBefore(x, y) ==
    \/ x["Count"] > y["Count"]
    \/ /\ x["Count"] = y["Count"]
       /\ x["inci_name"] # NoText
       /\ (y["inci_name"] = NoText \/ StrLess(x["inci_name"], y["inci_name"]))

RECURSIVE InsertFreq(_, _)
InsertFreq(x, out) ==
    IF out = <<>> THEN <<x>>
    ELSE IF FreqBefore(x, Head(out)) THEN <<x>> \o out
         ELSE <<Head(out)>> \o InsertFreq(x, Tail(out))

RECURSIVE SortFreq(_, _)
SortFreq(rows, out) ==
    IF rows = <<>> THEN out
    ELSE SortFreq(Tail(rows), InsertFreq(Head(rows), out))

RECURSIVE AscendingSeq(_)
AscendingSeq(S) ==
    IF S = {} THEN <<>>
    ELSE LET m == CHOOSE x \in S : \A y \in S : x <= y
         IN <<m>> \o AscendingSeq(S \ {m})

(* groupby("ingredient_id").agg(Count=("formulation_id", "nunique")):     *)
(* one row per ingredient_id that is a number, in ascending order; NaN     *)
(* formulation ids are not counted.                                        *)
nunique(rows, key) ==
    Cardinality({rows[i]["formulation_id"] :
                    i \in {j \in 1..Len(rows) :
                              rows[j]["ingredient_id"] = key}} \ {NaN})

groupby_count(rows) ==
    LET ks == AscendingSeq({rows[i]["ingredient_id"] : i \in 1..Len(rows)}
                             \ {NaN})
    IN [i \in 1..Len(ks) |->
          [ingredient_id |-> ks[i], Count |-> nunique(rows, ks[i])]]

FreqCols == <<"inci_name", "common_name", "function", "Count">>

(* Ingredient frequency; freq keeps the merged frame, shown the table. *)
frequency_of(d, sq) ==
    LET fi == merge_left(
                  Frame("Formulation_Ingredients", d["Formulation_Ingredients"]),
                  Frame("Formulations", d["Formulations"]),
                  "formulation_id", "id", "", "_form")
        CatOk(r) == Truthy(sq.cat) => r["category"] = sq.cat
        TypeOk(r) == Truthy(sq.ptype) => r["product_type"] = sq.ptype
        Keep(r) == CatOk(r) /\ TypeOk(r)
        grouped == [ cols |-> <<"ingredient_id", "Count">>,
                     rows |-> groupby_count(SelectSeq(fi.rows, Keep)) ]
        merged == merge_left(grouped, Frame("Ingredients", d["Ingredients"]),
                             "ingredient_id", "id", "", "_y")
    IN IF HasCols(merged, FreqCols)
       THEN [ status |-> "shown",
              merged |-> merged.rows,
              rows |-> SortFreq(Project(merged, FreqCols).rows, <<>>) ]
       ELSE [status |-> "KeyError", merged |-> <<>>, rows |-> <<>>]

(***************************************************************************)
(* The browse page: one render per choice of the sidebar and of the        *)
(* multiselect, over tables loaded from the store.                         *)
(***************************************************************************)
MaxForms == 2
MaxFI == 3

Bodycare == <<"B", "c">>
Skincare == <<"S", "k">>
BodyWash == <<"B", "W">>

BrandSheet ==
    << SheetRow("Brands", [id |-> 1, name |-> <<"x">>]),
       SheetRow("Brands", [id |-> 2, name |-> <<"y">>]) >>

IngredientSheet ==
    << SheetRow("Ingredients",
           [id |-> 1, inci_name |-> <<"b">>, common_name |-> <<"B">>,
            function |-> <<"c">>]),
       SheetRow("Ingredients",
           [id |-> 2, inci_name |-> <<"a">>, common_name |-> <<"A">>,
            function |-> <<"c">>]) >>

(* brand_id, category, product_type of the sample formulations; the form   *)
(* accepts a blank product type.                                           *)
FormKinds ==
    { <<1, Bodycare, BodyWash>>, <<2, Bodycare, <<>>>>,
      <<2, Skincare, BodyWash>> }

FormSheet(ks) ==
    [i \in 1..Len(ks) |->
        SheetRow("Formulations",
            [id |-> i, name |-> <<"f">>, brand_id |-> ks[i][1],
             category |-> ks[i][2], product_type |-> ks[i][3]])]

(* formulation_id, ingredient_id of the sample links: an ingredient twice  *)
(* in a formulation, links of formulations and ingredients that are gone.  *)
LinkKinds == { <<1, 1>>, <<2, 1>>, <<1, 2>>, <<3, 1>>, <<2, 3>> }

LinkSheet(ks) ==
    [i \in 1..Len(ks) |->
        SheetRow("Formulation_Ingredients",
            [id |-> i, formulation_id |-> ks[i][1],
             ingredient_id |-> ks[i][2], percentage |-> <<"5">>,
             phase |-> <<"A">>])]

QuerySheets ==
    { [ Brands |-> BrandSheet,
        Formulations |-> FormSheet(fs),
        Ingredients |-> IngredientSheet,
        Formulation_Ingredients |-> LinkSheet(ls) ] :
        fs \in SeqsUpTo(FormKinds, MaxForms) \ {<<>>},
        ls \in SeqsUpTo(LinkKinds, MaxFI) \ {<<>>} }

InitQuery ==
    /\ RecIdle
    /\ QueryIdle
    /\ SessionsIdle
    /\ ws \in QuerySheets
    /\ df = [t \in Tabs |-> ws_to_df(ws[t])]
    /\ last = NoLast
    /\ runs = 0

(* The options of the three selectboxes. *)
cats(d) ==
    {ALL} \cup ({d["Formulations"][i]["category"] :
                    i \in 1..Len(d["Formulations"])} \ {<<>>})

ptypes(d, sel_cat_q) ==
    {ALL} \cup
    { d["Formulations"][i]["product_type"] :
        i \in { j \in 1..Len(d["Formulations"]) :
                  Truthy(sel_cat_q) =>
                      d["Formulations"][j]["category"] = sel_cat_q } }

brands(d) ==
    {ALL} \cup {d["Brands"][i]["name"] : i \in 1..Len(d["Brands"])}

Sidebar(sel_cat, sel_ptype, sel_brand) ==
    [cat |-> SelQ(sel_cat), ptype |-> SelQ(sel_ptype),
     brand |-> SelQ(sel_brand)]

ViewIds(rows) == {rows[i]["id"] : i \in 1..Len(rows)} \ {NaN}

(* A render with nothing selected in the multiselect. *)
Browse(sel_cat, sel_ptype, sel_brand, limit) ==
    LET sq == Sidebar(sel_cat, sel_ptype, sel_brand)
    IN /\ runs < limit
       /\ sel_cat \in cats(df)
       /\ sel_ptype \in ptypes(df, sq.cat)
       /\ sel_brand \in brands(df)
       /\ sel_q' = sq
       /\ df_view' = df_view_of(df, sq)
       /\ sel_ids' = <<>>
       /\ detail' = [status |-> "none", rows |-> <<>>]
       /\ freq' = frequency_of(df, sq)
       /\ runs' = runs + 1
       /\ UNCHANGED <<recVars, ws, df, last, sessions>>

(* A render with one formulation selected: an error raised by the detail   *)
(* table ends the script run before the frequency table.                   *)
ViewDetail(sel_cat, sel_ptype, sel_brand, fid, limit) ==
    LET sq == Sidebar(sel_cat, sel_ptype, sel_brand)
        view == df_view_of(df, sq)
        shown == detail_of(df, fid)
    IN /\ runs < limit
       /\ sel_cat \in cats(df)
       /\ sel_ptype \in ptypes(df, sq.cat)
       /\ sel_brand \in brands(df)
       /\ fid \in ViewIds(view)
       /\ sel_q' = sq
       /\ df_view' = view
       /\ sel_ids' = <<fid>>
       /\ detail' = shown
       /\ freq' = IF shown.status = "shown"
                  THEN frequency_of(df, sq) ELSE NotRendered
       /\ runs' = runs + 1
       /\ UNCHANGED <<recVars, ws, df, last, sessions>>

(* One render of tables loaded from the store. *)
NextQuery ==
    \/ \E c \in cats(df), b \in brands(df) :
         \E p \in ptypes(df, SelQ(c)) : Browse(c, p, b, 1)
    \/ \E c \in cats(df), b \in brands(df), fid \in 1..MaxForms :
         \E p \in ptypes(df, SelQ(c)) : ViewDetail(c, p, b, fid, 1)

SpecQuery == InitQuery /\ [][NextQuery]_vars

(***************************************************************************)
(* The same render over Brand tables of every shape the sheet can hold:    *)
(* a name on two rows, an id cell that is not a number, a blank name.      *)
(***************************************************************************)
MaxBrands == 2

(* id cell, name cell of the sample brands. *)
BrandKinds ==
    { <<<<"1">>, <<"x">>>>, <<<<"2">>, <<"x">>>>, <<<<>>, <<"z">>>>,
      <<<<"2">>, <<>>>> }

BrandSheetOf(ks) == [i \in 1..Len(ks) |-> [id |-> ks[i][1], name |-> ks[i][2]]]

FilterSheets ==
    { [ Brands |-> BrandSheetOf(bs),
        Formulations |-> FormSheet(fs),
        Ingredients |-> IngredientSheet,
        Formulation_Ingredients |-> LinkSheet(<<<<1, 1>>>>) ] :
        bs \in SeqsUpTo(BrandKinds, MaxBrands) \ {<<>>},
        fs \in SeqsUpTo(FormKinds, MaxForms) \ {<<>>} }

InitFilter ==
    /\ RecIdle
    /\ QueryIdle
    /\ SessionsIdle
    /\ ws \in FilterSheets
    /\ df = [t \in Tabs |-> ws_to_df(ws[t])]
    /\ last = NoLast
    /\ runs = 0

SpecFilter == InitFilter /\ [][NextQuery]_vars

(***************************************************************************)
(* Two sessions on one store.  Each session's script run loads the four    *)
(* DataFrames, then its handler computes ids from those DataFrames alone   *)
(* and appends row by row; the appends of the two runs interleave.         *)
(***************************************************************************)
HandlerRun(op, sheets, in, k) ==
    IF op = "add_formulation" THEN add_formulation(sheets, in, k)
    ELSE bulk_ing_add(sheets, in, k)

(* The append that takes the store from before to after. *)
NewRow(before, after) ==
    LET tab == CHOOSE t \in Tabs : Len(after[t]) = Len(before[t]) + 1
    IN [tab |-> tab, row |-> after[tab][Len(after[tab])]]

(* The df_append calls of a handler run over the loaded tables, in order:  *)
(* the i-th is what a run that is cut off after i appends adds to one cut  *)
(* off after i - 1.                                                        *)
AppendsOf(op, sheets, in) ==
    LET n == AppendCount(sheets, HandlerRun(op, sheets, in, NoFailure).ws)
    IN [i \in 1..n |->
          NewRow(HandlerRun(op, sheets, in, i - 1).ws,
                 HandlerRun(op, sheets, in, i).ws)]

(* Script run starts: Connect & load. *)
SessionLoad(s) ==
    /\ sessions[s].pc = "start"
    /\ sessions' = [sessions EXCEPT ![s].pc = "loaded", ![s].loaded = ws]
    /\ UNCHANGED <<recVars, storeVars, queryVars>>

(* The submitted handler starts over the session's own DataFrames. *)
SessionHandle(s, op, in) ==
    LET rs == HandlerRun(op, sessions[s].loaded, in, NoFailure)
        calls == AppendsOf(op, sessions[s].loaded, in)
    IN /\ sessions[s].pc = "loaded"
       /\ op = "add_formulation" =>
             in.sel_brand \in {NEW_BRAND} \cup
                 BrandNamesOf(ws_to_df(sessions[s].loaded["Brands"]))
       /\ sessions' = [sessions EXCEPT
                         ![s].pc = IF calls = <<>> THEN "done" ELSE "appending",
                         ![s].queue = calls,
                         ![s].final = Outcome(rs),
                         ![s].outcome =
                             IF calls = <<>> THEN Outcome(rs) ELSE "none"]
       /\ UNCHANGED <<recVars, storeVars, queryVars>>

(* The handler's next df_append reaches the store. *)
SessionAppend(s) ==
    LET call == Head(sessions[s].queue)
        rest == Tail(sessions[s].queue)
    IN /\ sessions[s].pc = "appending"
       /\ ws' = [ws EXCEPT ![call.tab] = Append(@, call.row)]
       /\ sessions' = [sessions EXCEPT
                         ![s].queue = rest,
                         ![s].pc = IF rest = <<>> THEN "done" ELSE "appending",
                         ![s].outcome =
                             IF rest = <<>> THEN sessions[s].final ELSE "none"]
       /\ UNCHANGED <<recVars, df, last, runs, queryVars>>

(* The handler's next df_append raises: the handler reports the failure    *)
(* and makes no further call.                                              *)
SessionAppendRaises(s) ==
    /\ sessions[s].pc = "appending"
    /\ sessions' = [sessions EXCEPT ![s].queue = <<>>, ![s].pc = "done",
                                    ![s].outcome = "failure"]
    /\ UNCHANGED <<recVars, storeVars, queryVars>>

SessionSeeds ==
    { EmptySheets,
      add_formulation(EmptySheets,
          AddInput(NEW_BRAND, <<"x">>, TextOf(<<LineB>>)), NoFailure).ws }

SessionAddInputs ==
    { AddInput(b[1], b[2], text) :
        b \in BrandInputs({<<"y">>}, {<<"x">>}),
        text \in {TextOf(<<LineA>>), TextOf(<<LineB>>)} }

SessionBulkInputs ==
    { BulkInput(raw, dd) :
        raw \in {<<"a">>, Join(<< <<"B">>, <<"c">> >>, <<",">>)},
        dd \in {TRUE} }

SessionInputs(op) ==
    IF op = "add_formulation" THEN SessionAddInputs ELSE SessionBulkInputs

InitSessions ==
    /\ RecIdle
    /\ QueryIdle
    /\ SessionsIdle
    /\ ws \in SessionSeeds
    /\ df = [t \in Tabs |-> ws_to_df(ws[t])]
    /\ last = NoLast
    /\ runs = 0

NextSessions ==
    \/ \E s \in Sessions : SessionLoad(s)
    \/ \E s \in Sessions, op \in {"add_formulation", "bulk_ing_add"} :
         \E in \in SessionInputs(op) : SessionHandle(s, op, in)
    \/ \E s \in Sessions : SessionAppend(s)
    \/ \E s \in Sessions : SessionAppendRaises(s)

SpecSessions == InitSessions /\ [][NextSessions]_vars

(***************************************************************************)
(* Rule catalog: the candidate surfactant systems of BODY_WASH_RULES, in   *)
(* catalog order (name and tag list; the combo rows are display data).     *)
(***************************************************************************)
BODY_WASH_RULES ==
    << [name |-> "Classic SLES/CAPB",
        tags |-> <<"cost-effective", "medium mildness">>],
       [name |-> "Sulfate-Free APG/Betaine",
        tags |-> <<"mild", "green", "sulfate-free">>],
       [name |-> "Sarcosinate/Betaine (clear gel)",
        tags |-> <<"mild", "clarity">>],
       [name |-> "AOS/CAPB (high foam)",
        tags |-> <<"high foam", "cost">>] >>

(* Tag lists a catalog entry may carry: those of the catalog and further  *)
(* combinations of the scored tags.                                        *)
TagLists ==
    { BODY_WASH_RULES[i].tags : i \in 1..Len(BODY_WASH_RULES) } \cup
    { <<>>, <<"cost">>, <<"sulfate-free", "high foam">>,
      <<"mild", "cost", "high foam", "sulfate-free">> }

(* Names given to the systems of a generated candidate list, by position. *)
SystemNames == <<"S1", "S2", "S3", "S4", "S5">>

(***************************************************************************)
(* Scoring engine.                                                         *)
(***************************************************************************)
score_system_costAlways(sys, w) ==
    (IF w.sulfate_free /\ InList("sulfate-free", sys.tags) THEN 2 ELSE 0)
  + (IF w.mild /\ InList("mild", sys.tags) THEN 2 ELSE 0)
  + (IF w.high_foam /\ InList("high foam", sys.tags) THEN 1 ELSE 0)
  + (IF InList("cost", sys.tags) THEN 1 ELSE 0)

score_system(sys, w) ==
    (IF w.sulfate_free /\ InList("sulfate-free", sys.tags) THEN 2 ELSE 0)
  + (IF w.mild /\ InList("mild", sys.tags) THEN 2 ELSE 0)
  + (IF w.high_foam /\ InList("high foam", sys.tags) THEN 1 ELSE 0)
  + (IF ~w.mild /\ InList("cost", sys.tags) THEN 1 ELSE 0)

(* sorted(xs, key=..., reverse=True): a stable sort, descending by key;   *)
(* elements with equal keys keep their input order.                        *)
RECURSIVE InsertDesc(_, _, _)
InsertDesc(x, out, w) ==
    IF out = <<>> THEN <<x>>
    ELSE IF score_system(Head(out), w) >= score_system(x, w)
         THEN <<Head(out)>> \o InsertDesc(x, Tail(out), w)
         ELSE <<x>> \o out

RECURSIVE SortedDescFrom(_, _, _)
SortedDescFrom(xs, out, w) ==
    IF xs = <<>> THEN out
    ELSE SortedDescFrom(Tail(xs), InsertDesc(Head(xs), out, w), w)

RECURSIVE Reverse(_)
Reverse(s) == IF s = <<>> THEN <<>> ELSE Reverse(Tail(s)) \o <<Head(s)>>

sorted_reversed(xs, w) == SortedDescFrom(Reverse(xs), <<>>, w)

sorted_desc(xs, w) == SortedDescFrom(xs, <<>>, w)

(***************************************************************************)
(* Recommender: state and actions.                                         *)
(***************************************************************************)
Prefs == [sulfate_free : BOOLEAN, mild : BOOLEAN, high_foam : BOOLEAN]

NoPrefs == [sulfate_free |-> FALSE, mild |-> FALSE, high_foam |-> FALSE]

(* Candidate lists: the built-in catalog, and every list of at most       *)
(* MaxCand systems (distinct names) with tag lists from TagLists.          *)
CandidateLists ==
    {BODY_WASH_RULES} \cup
    { [i \in 1..Len(t) |-> [name |-> SystemNames[i], tags |-> t[i]]] :
        t \in SeqsUpTo(TagLists, MaxCand) }

InitRec ==
    /\ StoreIdle
    /\ QueryIdle
    /\ SessionsIdle
    /\ rec_target = "none"
    /\ want = NoPrefs
    /\ candidates \in CandidateLists
    /\ keys = <<>>
    /\ ranked = <<>>

Recommend(w) ==
    /\ rec_target' = "Body Wash"
    /\ want' = w
    /\ keys' = [i \in 1..Len(candidates) |-> score_system(candidates[i], w)]
    /\ ranked' = sorted_desc(candidates, w)
    /\ UNCHANGED <<candidates, storeVars, queryVars, sessions>>

RecommendOther(w) ==
    /\ rec_target' = "Facial Cleanser"
    /\ want' = w
    /\ keys' = <<>>
    /\ ranked' = <<>>
    /\ UNCHANGED <<candidates, storeVars, queryVars, sessions>>

NextRec ==
    \/ \E w \in Prefs : Recommend(w)
    \/ \E w \in Prefs : RecommendOther(w)

SpecRec == InitRec /\ [][NextRec]_vars

(***************************************************************************)
(* Claims about the recommender (checked under SpecRec).                   *)
(***************************************************************************)
TagSet(sys) == Range(sys.tags)

ClaimedScore(sys, w) ==
    (IF w.sulfate_free /\ "sulfate-free" \in TagSet(sys) THEN 2 ELSE 0)
  + (IF w.mild /\ "mild" \in TagSet(sys) THEN 2 ELSE 0)
  + (IF w.high_foam /\ "high foam" \in TagSet(sys) THEN 1 ELSE 0)
  + (IF (~w.mild) /\ "cost" \in TagSet(sys) THEN 1 ELSE 0)

ExamplePrefs == [sulfate_free |-> TRUE, mild |-> TRUE, high_foam |-> FALSE]

(* C1: the key computed for every candidate is 2 for a wanted             *)
(* "sulfate-free" tag, plus 2 for a wanted "mild" tag, plus 1 for a wanted *)
(* "high foam" tag, plus 1 for the exact tag "cost" when mildness is not   *)
(* wanted, and nothing else; under (sulfate-free, mild, not high foam) a   *)
(* system tagged {mild, green, sulfate-free} scores 4 and one tagged       *)
(* {cost-effective, medium mildness} scores 0.                             *)
C1_ScoreExact ==
    rec_target = "Body Wash" =>
        /\ Len(keys) = Len(candidates)
        /\ \A i \in 1..Len(candidates) :
              /\ keys[i] = ClaimedScore(candidates[i], want)
              /\ keys[i] \in 0..5
              /\ (want = ExamplePrefs /\
                  TagSet(candidates[i]) = {"mild", "green", "sulfate-free"})
                    => keys[i] = 4
              /\ (want = ExamplePrefs /\
                  TagSet(candidates[i]) = {"cost-effective", "medium mildness"})
                    => keys[i] = 0
              /\ ("cost" \notin TagSet(candidates[i]) /\
                  "cost-effective" \in TagSet(candidates[i]) /\
                  ~want.sulfate_free /\ ~want.mild /\ ~want.high_foam)
                    => keys[i] = 0

C1_Witness ==
    /\ rec_target = "Body Wash"
    /\ candidates = BODY_WASH_RULES
    /\ want = ExamplePrefs
    /\ keys = <<0, 4, 2, 0>>

(* Position of a ranked entry in the candidate list (names are distinct). *)
CatalogPos(sys) == CHOOSE i \in 1..Len(candidates) : candidates[i] = sys

(* C2: the ranked list is a permutation of the candidate list, scores are *)
(* non-increasing along it, and candidates with equal score keep their     *)
(* catalog order.                                                          *)
C2_RankStablePermutation ==
    rec_target = "Body Wash" =>
        /\ Len(ranked) = Len(candidates)
        /\ \A i \in 1..Len(candidates) :
              \E j \in 1..Len(ranked) : ranked[j] = candidates[i]
        /\ \A i, j \in 1..Len(ranked) : i < j =>
              /\ ranked[i] # ranked[j]
              /\ score_system(ranked[i], want) >= score_system(ranked[j], want)
              /\ score_system(ranked[i], want) = score_system(ranked[j], want)
                    => CatalogPos(ranked[i]) < CatalogPos(ranked[j])

C2_Witness ==
    /\ rec_target = "Body Wash"
    /\ candidates = BODY_WASH_RULES
    /\ want = ExamplePrefs
    /\ ranked = << BODY_WASH_RULES[2], BODY_WASH_RULES[3],
                   BODY_WASH_RULES[1], BODY_WASH_RULES[4] >>

(***************************************************************************)
(* Claims about the submission handlers.                                   *)
(***************************************************************************)
IsPrefix(a, b) == Len(a) <= Len(b) /\ SubSeq(b, 1, Len(a)) = a

(* The rows the last submission appended to a worksheet. *)
Appended(tab) == SubSeq(ws[tab], Len(last.pre[tab]) + 1, Len(ws[tab]))

LastAdd == last.op = "add_formulation"

LastBulk == last.op = "bulk_ing_add"

CountOf(s, c) == Cardinality({i \in 1..Len(s) : s[i] = c})

(* The lines of the block with at least 4 pipe-delimited fields, that is  *)
(* at least 3 pipes; and the INCI of a line, the text before its first     *)
(* pipe, trimmed.                                                          *)
ClaimValidLines(text) ==
    LET ls == ing_lines_of(text)
        Valid(ln) == CountOf(ln, "|") >= 3
    IN SelectSeq(ls, Valid)

ClaimInci(ln) ==
    LET p == CHOOSE i \in 1..Len(ln) :
                 ln[i] = "|" /\ \A j \in 1..(i - 1) : ln[j] # "|"
    IN Strip(SubSeq(ln, 1, p - 1))

SameIgnoringCase(a, b) == Lower(a) = Lower(b)

NoCaseDuplicates(rows) ==
    \A i, j \in 1..Len(rows) :
        i < j => ~SameIgnoringCase(rows[i]["inci_name"], rows[j]["inci_name"])

(* C3: every FormulationIngredient row of a submission carries the id of  *)
(* an Ingredient row whose inci_name equals its line's INCI ignoring case; *)
(* an Ingredient row is appended only when no row of that name (ignoring   *)
(* case) is in the table yet; so a table without case-duplicates never     *)
(* gets one.                                                               *)
C3_IngredientReusedIgnoringCase ==
    LastAdd =>
        LET lines == ClaimValidLines(last.text)
            fis == Appended("Formulation_Ingredients")
            ings == ws["Ingredients"]
        IN /\ Len(fis) <= Len(lines)
           /\ last.outcome = "success" => Len(fis) = Len(lines)
           /\ \A j \in 1..Len(fis) :
                 \E i \in 1..Len(ings) :
                    /\ ings[i]["id"] = fis[j]["ingredient_id"]
                    /\ SameIgnoringCase(ings[i]["inci_name"],
                                        ClaimInci(lines[j]))
           /\ \A i \in (Len(last.pre["Ingredients"]) + 1)..Len(ings) :
                 \A h \in 1..(i - 1) :
                    ~SameIgnoringCase(ings[h]["inci_name"],
                                      ings[i]["inci_name"])
           /\ NoCaseDuplicates(last.pre["Ingredients"])
                 => NoCaseDuplicates(ings)

(* " A " and "a" in one block on empty tables: one Ingredient row, two    *)
(* links to it.                                                            *)
C3_Witness ==
    /\ LastAdd /\ last.outcome = "success"
    /\ last.pre = EmptySheets
    /\ last.text = TextOf(<<LineACaps, LineA>>)
    /\ Len(ws["Ingredients"]) = 1
    /\ Len(ws["Formulation_Ingredients"]) = 2
    /\ ws["Formulation_Ingredients"][1]["ingredient_id"] = <<"1">>
    /\ ws["Formulation_Ingredients"][2]["ingredient_id"] = <<"1">>

IdAt(tab, i) == to_numeric(ws[tab][i]["id"])

MaxBefore(tab, i) ==
    IF i = 1 THEN 0 ELSE SeqMax([h \in 1..(i - 1) |-> IdAt(tab, h)])

(* C4: in each of the four tables the ids are pairwise distinct positive  *)
(* integers, every row's id is the maximum id of the rows before it plus   *)
(* one, and the first id is 1.                                             *)
C4_IdsMaxPlusOne ==
    \A tab \in Tabs :
        /\ \A i \in 1..Len(ws[tab]) :
              /\ IdAt(tab, i) >= 1
              /\ IdAt(tab, i) = MaxBefore(tab, i) + 1
        /\ \A i, j \in 1..Len(ws[tab]) :
              i # j => IdAt(tab, i) # IdAt(tab, j)
        /\ IsPrefix(last.pre[tab], ws[tab])

C4_Witness ==
    /\ runs = 2
    /\ LastBulk
    /\ \A tab \in Tabs : Len(ws[tab]) >= 1
    /\ Len(ws["Formulation_Ingredients"]) >= 2
    /\ Len(ws["Ingredients"]) >= 3
    /\ Len(Appended("Ingredients")) >= 1

(* Split on newlines and commas, trim, drop the empty pieces. *)
RECURSIVE ClaimTokensFrom(_, _)
ClaimTokensFrom(raw, cur) ==
    IF raw = <<>> THEN StripNonEmpty(<<cur>>)
    ELSE IF Head(raw) \in {",", "\n", "\r"}
         THEN StripNonEmpty(<<cur>>) \o ClaimTokensFrom(Tail(raw), <<>>)
         ELSE ClaimTokensFrom(Tail(raw), Append(cur, Head(raw)))

(* The tokens whose lower-cased name is neither in the table nor that of  *)
(* an earlier token, in order of first appearance.                         *)
RECURSIVE ClaimNewNames(_, _)
ClaimNewNames(toks, taken) ==
    IF toks = <<>> THEN <<>>
    ELSE IF Lower(Head(toks)) \in taken THEN ClaimNewNames(Tail(toks), taken)
         ELSE <<Head(toks)>> \o
              ClaimNewNames(Tail(toks), taken \cup {Lower(Head(toks))})

ClaimBulkNames ==
    LET d == last.pre["Ingredients"]
    IN ClaimNewNames(ClaimTokensFrom(last.text, <<>>),
                     {Lower(d[i]["inci_name"]) : i \in 1..Len(d)})

(* C5: with the de-duplicate flag on or off, bulk-add appends one         *)
(* Ingredient row per token whose lower-cased name is new to the table and *)
(* to the batch, in order of first appearance, with consecutive ids, and   *)
(* reports their number; the other flag value leaves the same store.       *)
C5_BulkSameWithOrWithoutDedup ==
    LastBulk =>
        LET rows == Appended("Ingredients")
            names == ClaimBulkNames
            first == NextId(ws_to_df(last.pre["Ingredients"]))
        IN /\ IsPrefix([i \in 1..Len(rows) |-> rows[i]["inci_name"]], names)
           /\ Len(rows) = IF last.k < Len(names) THEN last.k ELSE Len(names)
           /\ \A i \in 1..Len(rows) : to_numeric(rows[i]["id"]) = first + i - 1
           /\ last.outcome = "success" =>
                 /\ Len(rows) = Len(names)
                 /\ last.added = Len(rows)
           /\ bulk_ing_add(last.pre, BulkInput(last.text, ~last.dedup),
                           last.k).ws = ws
           /\ \A tab \in Tabs \ {"Ingredients"} : ws[tab] = last.pre[tab]

(* "a, a, b" with the flag off on empty tables: a then b, 2 reported. *)
C5_Witness ==
    /\ LastBulk /\ ~last.dedup /\ last.outcome = "success"
    /\ last.pre = EmptySheets
    /\ last.text = <<"a", ",", " ", "a", ",", " ", "b", " ">>
    /\ last.added = 2
    /\ Len(ws["Ingredients"]) = 2
    /\ ws["Ingredients"][1]["inci_name"] = <<"a">>
    /\ ws["Ingredients"][2]["inci_name"] = <<"b">>

IsConsecutiveFrom(rows, first) ==
    \A i \in 1..Len(rows) : to_numeric(rows[i]["id"]) = first + i - 1

(* C6: a line with fewer than 4 fields gives no Ingredient row, no        *)
(* FormulationIngredient row and takes no id: the rows appended are those  *)
(* of the lines with 4 fields or more, in order, and their ids (and those  *)
(* of the new Ingredients) are consecutive.                                *)
C6_ShortLinesSkippedNoGap ==
    LastAdd =>
        LET lines == ClaimValidLines(last.text)
            fis == Appended("Formulation_Ingredients")
            ings == Appended("Ingredients")
        IN /\ Len(fis) <= Len(lines)
           /\ Len(ings) <= Len(lines)
           /\ last.outcome = "success" => Len(fis) = Len(lines)
           /\ \A j \in 1..Len(fis) : fis[j]["percentage"] = PartsOf(lines[j])[4]
           /\ \A i \in 1..Len(ings) :
                 \E j \in 1..Len(lines) :
                    ings[i]["inci_name"] = ClaimInci(lines[j])
           /\ IsConsecutiveFrom(fis,
                 NextId(ws_to_df(last.pre["Formulation_Ingredients"])))
           /\ IsConsecutiveFrom(ings,
                 NextId(ws_to_df(last.pre["Ingredients"])))

(* A short line between two valid ones. *)
C6_Witness ==
    /\ LastAdd /\ last.outcome = "success"
    /\ last.text = TextOf(<<LineA, LineShort, LineB>>)
    /\ Len(last.pre["Formulation_Ingredients"]) = 2
    /\ Len(Appended("Formulation_Ingredients")) = 2
    /\ Appended("Formulation_Ingredients")[1]["id"] = <<"3">>
    /\ Appended("Formulation_Ingredients")[2]["id"] = <<"4">>

LastAddInput == AddInput(last.sel_brand, last.new_brand_name, last.text)

(* C8: when the store fails at some append of an add-formulation          *)
(* submission, no later append is made, the rows appended before stay,     *)
(* and the outcome is the failure message, not success.                    *)
C8_FailureStopsKeepsRows ==
    LastAdd =>
        LET full == add_formulation(last.pre, LastAddInput, NoFailure)
            needed == AppendCount(last.pre, full.ws)
        IN /\ \A tab \in Tabs :
                 /\ IsPrefix(last.pre[tab], ws[tab])
                 /\ IsPrefix(ws[tab], full.ws[tab])
           /\ last.k < needed =>
                 /\ last.outcome = "failure"
                 /\ AppendCount(last.pre, ws) = last.k
           /\ last.k >= needed =>
                 /\ last.outcome \in {"success", "halted"}
                 /\ ws = full.ws

(* The store fails after the brand, the formulation, an ingredient and a  *)
(* link were appended.                                                     *)
C8_Witness ==
    /\ LastAdd /\ last.outcome = "failure"
    /\ last.k = 4
    /\ Len(Appended("Brands")) = 1
    /\ Len(Appended("Formulations")) = 1
    /\ Len(Appended("Ingredients")) = 1
    /\ Len(Appended("Formulation_Ingredients")) = 1

OnlyWhitespace(name) == \A i \in 1..Len(name) : name[i] \in Whitespace

(* C9: "(new)" brand with an empty or all-whitespace name halts the       *)
(* submission before any write: nothing is appended and the DataFrames     *)
(* are as loaded.                                                          *)
C9_BlankNewBrandHalts ==
    (LastAdd /\ last.sel_brand = NEW_BRAND /\ OnlyWhitespace(last.new_brand_name))
        => /\ last.outcome = "halted"
           /\ ws = last.pre
           /\ df = [t \in Tabs |-> ws_to_df(last.pre[t])]

C9_Witness ==
    /\ LastAdd /\ last.sel_brand = NEW_BRAND
    /\ last.new_brand_name = <<" ">>
    /\ last.text = TextOf(<<LineA, LineB>>)
    /\ last.outcome = "halted"
    /\ Len(ws["Brands"]) = 1


(***************************************************************************)
(* Claims about the browse page (checked under SpecQuery).                 *)
(***************************************************************************)
LinksOf(P(_)) == SelectSeq(df["Formulation_Ingredients"], P)

(* The parent formulation of a link matches the selection: nothing        *)
(* selected matches every link, a selected value is matched by equality.   *)
ParentMatches(fid, cat_q, ptype_q) ==
    \/ cat_q = None /\ ptype_q = None
    \/ \E i \in 1..Len(df["Formulations"]) :
         LET f == df["Formulations"][i]
         IN /\ f["id"] = fid
            /\ (cat_q # None => f["category"] = cat_q)
            /\ (ptype_q # None => f["product_type"] = ptype_q)

ClaimCount(iid, cat_q, ptype_q) ==
    LET links == df["Formulation_Ingredients"]
    IN Cardinality(
         { links[i]["formulation_id"] :
             i \in { j \in 1..Len(links) :
                       /\ links[j]["ingredient_id"] = iid
                       /\ ParentMatches(links[j]["formulation_id"],
                                        cat_q, ptype_q) } })

ClaimCountsHold ==
    /\ \A i \in 1..Len(freq.merged) :
          freq.merged[i]["Count"] =
              ClaimCount(freq.merged[i]["ingredient_id"], sel_q.cat,
                         sel_q.ptype)
    /\ \A j \in 1..Len(df["Formulation_Ingredients"]) :
          LET iid == df["Formulation_Ingredients"][j]["ingredient_id"]
          IN ClaimCount(iid, sel_q.cat, sel_q.ptype) > 0 =>
                \E i \in 1..Len(freq.merged) :
                    freq.merged[i]["ingredient_id"] = iid

(* C7: in every render that shows the frequency table, the Count of each   *)
(* ingredient is the number of distinct formulation_id values among the    *)
(* links of that ingredient whose parent formulation matches the selected  *)
(* category and product type, whatever brand is selected.                  *)
C7_FrequencyCountsDistinct == freq.status = "shown" => ClaimCountsHold

(* The same statement for the renders whose selected product type is not   *)
(* the blank one.                                                          *)
C7_HoldsForNonBlankSelection ==
    (freq.status = "shown" /\ sel_q.ptype # <<>>) => ClaimCountsHold

C7_NonBlankCase ==
    /\ freq.status = "shown"
    /\ sel_q.ptype = BodyWash
    /\ sel_q.brand = <<"x">>
    /\ \E i \in 1..Len(freq.merged) : freq.merged[i]["Count"] = 2
    /\ Len(df["Formulation_Ingredients"]) = 3

IngredientOf(iid) ==
    LET Hit(r) == r["id"] = iid
    IN SelectSeq(df["Ingredients"], Hit)

ClaimDetailRow(out, link) ==
    LET m == IngredientOf(link["ingredient_id"])
    IN /\ out["percentage"] = link["percentage"]
       /\ out["phase"] = link["phase"]
       /\ out["notes"] = link["notes"]
       /\ out["inci_name"] = (IF m = <<>> THEN NoText ELSE m[1]["inci_name"])
       /\ out["common_name"] =
              (IF m = <<>> THEN NoText ELSE m[1]["common_name"])
       /\ out["function_ing"] =
              (IF m = <<>> THEN NoText ELSE m[1]["function"])

(* C10: a render with a formulation selected shows its detail table, one   *)
(* row per link of that formulation in table order with the ingredient's   *)
(* INCI name, common name and function (empty when the ingredient is       *)
(* unknown), and never ends in an error.                                   *)
C10_DetailLeftJoinNeverFails ==
    sel_ids # <<>> =>
        LET OfForm(r) == r["formulation_id"] = sel_ids[1]
            links == LinksOf(OfForm)
        IN /\ detail.status = "shown"
           /\ Len(detail.rows) = Len(links)
           /\ \A i \in 1..Len(links) : ClaimDetailRow(detail.rows[i], links[i])

(* A selected formulation always ends the render with KeyError. *)
C10_DetailAlwaysKeyError ==
    sel_ids # <<>> => detail.status = "KeyError" /\ freq.status = "none"


(***************************************************************************)
(* Claims about the formulation filter (checked under SpecFilter).         *)
(***************************************************************************)
(* A formulation matches the selected category and product type: nothing   *)
(* selected matches all, a selected value is matched by equality.          *)
MatchesSelection(f) ==
    /\ (sel_q.cat # None => f["category"] = sel_q.cat)
    /\ (sel_q.ptype # None => f["product_type"] = sel_q.ptype)

(* The selected brand name has an entry in the name-to-id lookup. *)
Resolvable == brand_name_to_id(df["Brands"], sel_q.brand) # NaN

ClaimFiltered ==
    LET bid == brand_name_to_id(df["Brands"], sel_q.brand)
        Keep(f) == MatchesSelection(f) /\ (Resolvable => f["brand_id"] = bid)
    IN SelectSeq(df["Formulations"], Keep)

(* C11: in every render with a brand selected, the formulations shown are  *)
(* those matching the selected category and product type when the name has *)
(* no entry in the lookup, and those among them whose brand_id is the      *)
(* resolved id when it has one.                                            *)
C11_BrandFilterNoOpWhenUnknown ==
    (runs > 0 /\ sel_q.brand # None) => df_view = ClaimFiltered

(* The same statement for the renders whose selected product type and      *)
(* brand name are not blank.                                               *)
C11_HoldsForNonBlankSelection ==
    (runs > 0 /\ sel_q.brand # None /\ sel_q.ptype # <<>>
              /\ sel_q.brand # <<>>) => df_view = ClaimFiltered

(* An unknown brand name selected with a category, some formulation shown. *)
C11_UnknownBrandCase ==
    /\ runs > 0
    /\ sel_q.brand = <<"z">>
    /\ sel_q.cat = Bodycare
    /\ sel_q.ptype = BodyWash
    /\ ~Resolvable
    /\ Len(df_view) = 1
    /\ Len(df["Formulations"]) = 2

(* A name on two Brand rows resolves to the later id and filters by it. *)
C11_ResolvedBrandCase ==
    /\ runs > 0
    /\ sel_q.brand = <<"x">>
    /\ brand_name_to_id(df["Brands"], sel_q.brand) = 2
    /\ df["Brands"][1]["id"] = 1
    /\ Len(df_view) = 1
    /\ Len(df["Formulations"]) = 2


(***************************************************************************)
(* Claims about two sessions (checked under SpecSessions).                 *)
(***************************************************************************)
DistinctIds(rows) ==
    \A i, j \in 1..Len(rows) : i # j => rows[i]["id"] # rows[j]["id"]

(* Both sessions loaded the same tables and each went on to its handler. *)
BothLoadedThenSubmitted ==
    /\ \A s \in Sessions : sessions[s].pc \in {"appending", "done"}
    /\ sessions[1].loaded = sessions[2].loaded

(* C12: when both sessions have loaded the tables and each then runs an    *)
(* add-formulation or bulk-add submission, however their appends           *)
(* interleave, no table holds two rows with the same id.                   *)
C12_IdsDistinctAcrossSessions ==
    BothLoadedThenSubmitted => \A t \in Tabs : DistinctIds(ws[t])

(* While one of the sessions has not started its handler, the other one's  *)
(* appends alone keep the ids distinct.                                    *)
C12_HoldsWhileOneSessionAppends ==
    (\E s \in Sessions : sessions[s].pc \in {"start", "loaded"})
        => \A t \in Tabs : DistinctIds(ws[t])

====
